---- MODULE Spec2Model ----
(***************************************************************************)
(* Quickbots chat request pipeline: POST /api/chat/[bot_id].               *)
(*                                                                         *)
(* The repository holds three variants of the route handler:               *)
(*   "groq"         src/unnamed/part_007 lines 1-584   (rate limit, RAG,   *)
(*                  out-of-scope short-circuit, Groq backend)              *)
(*   "ollama"       src/unnamed/part_007 lines 586-853 (Ollama backend)    *)
(*   "ollamaLogged" src/src/app/api/chat/[bot_id]/route.ts (Ollama backend,*)
(*                  logs the user turn)                                    *)
(* and two definitions of chatRateLimit (src/unnamed/part_015 and          *)
(* src/src/lib/upstash/rate-limit/rate-limit.ts).  A deployment runs one   *)
(* route and one limiter definition; both are fixed by Init.               *)
(*                                                                         *)
(* Strings that the code inspects character by character (messages,        *)
(* session ids, fallback texts) are sequences of one-character strings.    *)
(* Every action is one run of the handler between two awaits.              *)
(***************************************************************************)
EXTENDS Integers, Sequences, FiniteSets, TLC

VARIABLES
    route,          \* which handler variant is deployed
    limiterVariant, \* which chatRateLimit definition is deployed
    adminEnv,       \* TRUE iff the Supabase admin env vars are set
    now,            \* wall clock, in ticks
    hits,           \* rate-limit store: rate key -> (window index -> count)
    admitted,       \* history: limit() calls answered success in the current window
    abandoned,      \* backend calls still running after their request gave up on them
    pc,             \* per request slot: the await the handler is suspended at
    input,          \* per request slot: the HTTP request
    local,          \* per request slot: the handler's local variables
    eff,            \* per request slot: the collaborator calls made so far
    resp,           \* per request slot: the HTTP response (or NoResp)
    textCheck,      \* a message put to the text classifiers, and their verdicts
    botTable,       \* the user's rows of the bots table, and the addBot calls under way
    fieldGen,       \* the generate-field route: its POSTs of one minute for one bot
    searchIndex     \* the bot's bot_configs row, its documents in the index, the ingestion

\* the chat route's state, and the state of everything else
chat == <<route, limiterVariant, adminEnv, now, hits, admitted, abandoned, pc, input, local, eff, resp>>
aux == <<textCheck, botTable, fieldGen, searchIndex>>

vars == <<chat, aux>>

(***************************************************************************)
(* Characters and strings                                                  *)
(***************************************************************************)
LowerSeq == <<"a","b","c","d","e","f","g","h","i","j","k","l","m","n","o","p","q","r","s","t","u","v","w","x","y","z">>
UpperSeq == <<"A","B","C","D","E","F","G","H","I","J","K","L","M","N","O","P","Q","R","S","T","U","V","W","X","Y","Z">>
DigitSeq == <<"0","1","2","3","4","5","6","7","8","9">>

Range(s) == { s[i] : i \in DOMAIN s }

LowerLetters == Range(LowerSeq)
UpperLetters == Range(UpperSeq)
Letters == LowerLetters \cup UpperLetters
Digits == Range(DigitSeq)
Whitespace == { " ", "\t", "\n" }

\* String.prototype.toLowerCase on one character
ToLowerChar(c) ==
    IF c \in UpperLetters
    THEN LowerSeq[CHOOSE i \in DOMAIN UpperSeq : UpperSeq[i] = c]
    ELSE c

ToLower(s) == [i \in DOMAIN s |-> ToLowerChar(s[i])]

\* String.prototype.trim
RECURSIVE TrimLeft(_)
TrimLeft(s) ==
    IF s # <<>> /\ Head(s) \in Whitespace THEN TrimLeft(Tail(s)) ELSE s

RECURSIVE TrimRight(_)
TrimRight(s) ==
    IF s # <<>> /\ s[Len(s)] \in Whitespace
    THEN TrimRight(SubSeq(s, 1, Len(s) - 1))
    ELSE s

Trim(s) == TrimLeft(TrimRight(s))

CountIn(s, set) == Cardinality({ i \in DOMAIN s : s[i] \in set })

(***************************************************************************)
(* Session id format (groq route only)                                     *)
(***************************************************************************)
SessionIdMinLen == 8
SessionIdMaxLen == 64
SessionIdChars == Letters \cup Digits \cup { "_", "-" }

\* /^[a-zA-Z0-9_-]{8,64}$/.test(sessionId)
SessionIdFormatOk(sid) ==
    /\ Len(sid) >= SessionIdMinLen
    /\ Len(sid) <= SessionIdMaxLen
    /\ \A i \in DOMAIN sid : sid[i] \in SessionIdChars

(***************************************************************************)
(* isObviousGibberish: lib/validation/gibberish-detector is not among the  *)
(* sources; the four rules are those of the specification, section 4.1.    *)
(***************************************************************************)
HasRepeatRun(s, n) ==
    \E i \in DOMAIN s :
        /\ i + n - 1 <= Len(s)
        /\ \A j \in i .. (i + n - 1) : s[j] = s[i]

HasLetterRun(s, n) ==
    \E i \in DOMAIN s :
        /\ i + n - 1 <= Len(s)
        /\ \A j \in i .. (i + n - 1) : s[j] \in Letters

isObviousGibberish(m) ==
    LET alnum == CountIn(m, Letters \cup Digits)
        symbols == Len(m) - alnum - CountIn(m, Whitespace)
    IN  \/ 10 * symbols > 6 * Len(m)
        \/ 10 * alnum < 3 * Len(m)
        \/ HasRepeatRun(m, 6)
        \/ ~HasLetterRun(m, 2)

(***************************************************************************)
(* isObviousOutOfScope (groq route)                                        *)
(***************************************************************************)
GreetingWords ==
    { <<"h","i">>,
      <<"h","e","l","l","o">>,
      <<"h","e","y">>,
      <<"s","u","p">>,
      <<"y","o">>,
      <<"g","r","e","e","t","i","n","g","s">>,
      <<"g","o","o","d"," ","m","o","r","n","i","n","g">>,
      <<"g","o","o","d"," ","a","f","t","e","r","n","o","o","n">>,
      <<"g","o","o","d"," ","e","v","e","n","i","n","g">> }
GratitudeWords ==
    { <<"t","h","a","n","k","s">>,
      <<"t","h","a","n","k">>,
      <<"t","h","a","n","k"," ","y","o","u">>,
      <<"t","h","x">>,
      <<"t","y">>,
      <<"a","p","p","r","e","c","i","a","t","e"," ","i","t">> }
FarewellWords ==
    { <<"b","y","e">>,
      <<"g","o","o","d","b","y","e">>,
      <<"s","e","e"," ","y","a">>,
      <<"l","a","t","e","r">>,
      <<"c","y","a">>,
      <<"f","a","r","e","w","e","l","l">> }
AckWords ==
    { <<"o","k">>,
      <<"o","k","a","y">>,
      <<"k">>,
      <<"a","l","r","i","g","h","t">>,
      <<"s","u","r","e">>,
      <<"g","o","t"," ","i","t">>,
      <<"u","n","d","e","r","s","t","o","o","d">> }
YesNoWords ==
    { <<"y","e","s">>,
      <<"n","o">>,
      <<"y","e","p">>,
      <<"n","o","p","e">>,
      <<"y","e","a","h">>,
      <<"n","a","h">> }

outOfScopeWords ==
    GreetingWords \cup GratitudeWords \cup FarewellWords \cup AckWords \cup YesNoWords

\* /^(w1|w2|...)[!.]?$/i.test(s)
MatchesWordPattern(s) ==
    \/ s \in outOfScopeWords
    \/ /\ s # <<>>
       /\ s[Len(s)] \in { "!", "." }
       /\ SubSeq(s, 1, Len(s) - 1) \in outOfScopeWords

\* /^[^a-z]*$/i.test(s)
MatchesNoLetters(s) == \A i \in DOMAIN s : s[i] \notin Letters

OutOfScopeMinLen == 3

isObviousOutOfScope(message) ==
    LET lowerMessage == Trim(ToLower(message))
    IN  \/ Len(lowerMessage) < OutOfScopeMinLen
        \/ MatchesWordPattern(lowerMessage)
        \/ MatchesNoLetters(lowerMessage)

(***************************************************************************)
(* Rate limiter: chatRateLimit = new Ratelimit({ limiter:                  *)
(* Ratelimit.slidingWindow(tokens, "1 m") }).  limit(key) is one atomic    *)
(* script on the store: it weighs the previous fixed window by the part of *)
(* it the sliding window still covers, adds the current window's count,    *)
(* and increments the current window only when it admits.                  *)
(***************************************************************************)
LimitPart015 == 20
LimitRateLimitTs == 10
LimiterVariants == { "part_015", "rate_limit_ts" }

ChatLimit == IF limiterVariant = "part_015" THEN LimitPart015 ELSE LimitRateLimitTs

\* time inside one window is sampled at its start and at its midpoint
WindowTicks == { 0, 1 }
TicksPerWindow == Cardinality(WindowTicks)
MaxNow == 2
Windows == 0 .. (MaxNow \div TicksPerWindow)

WindowOf(t) == t \div TicksPerWindow

\* Math.floor(previousCount * (1 - elapsedFractionOfCurrentWindow))
WeightedPrevious(h, t) ==
    LET w == WindowOf(t)
        prev == IF w = 0 THEN 0 ELSE h[w - 1]
    IN  (prev * (TicksPerWindow - (t % TicksPerWindow))) \div TicksPerWindow

Used(h, t) == WeightedPrevious(h, t) + h[WindowOf(t)]

\* mutant: off by one, admits when the window is already full
Admits_OffByOne(used, tokens) == used <= tokens

Admits(used, tokens) == used < tokens

\* the { success, remaining, reset } answer of limit(key) on store row h at time t
LimitResult(h, t, tokens) ==
    IF Admits(Used(h, t), tokens)
    THEN [ success |-> TRUE,
           remaining |-> tokens - (Used(h, t) + 1),
           reset |-> (WindowOf(t) + 1) * TicksPerWindow ]
    ELSE [ success |-> FALSE,
           remaining |-> 0,
           reset |-> (WindowOf(t) + 1) * TicksPerWindow ]

\* the store row after limit(key): INCR of the current window iff admitted
LimitStore(h, t, tokens) ==
    IF Admits(Used(h, t), tokens)
    THEN [h EXCEPT ![WindowOf(t)] = @ + 1]
    ELSE h

\* const rateKey = `bot:${bot_id}:session:${sessionId}`
RateKey(bot_id, sessionId) == <<"bot", bot_id, "session", sessionId>>

(***************************************************************************)
(* Requests                                                                *)
(***************************************************************************)
Routes == { "groq", "ollama", "ollamaLogged" }
Reqs == { "r1", "r2" }

BotId == "bot1"

Absent == [present |-> FALSE, value |-> <<>>]
Present(v) == [present |-> TRUE, value |-> v]

SidGood == <<"s","e","s","s","_","0","0","1">>
SidShort == <<"a","b","c">>
SidBadChar == <<"s","e","s","s"," ","0","0","1">>

SessionHeaders == { Absent, Present(<<>>), Present(SidShort), Present(SidBadChar), Present(SidGood) }

\* Authorization header: absent, or "Bearer <token>"
NoAuth == [bearer |-> FALSE, token |-> ""]
Bearer(t) == [bearer |-> TRUE, token |-> t]
AuthHeaders == { NoAuth, Bearer("k_bot1"), Bearer("k_bot2"), Bearer("k_unknown") }

\* api_keys rows; lookupApiKey (lib/db/bot-queries) is not among the sources
NoKey == [found |-> FALSE, bot_id |-> ""]
lookupApiKey(token) ==
    CASE token = "k_bot1" -> [found |-> TRUE, bot_id |-> "bot1"]
      [] token = "k_bot2" -> [found |-> TRUE, bot_id |-> "bot2"]
      [] OTHER -> NoKey

MsgHi == <<"h","i">>
MsgQuestion == <<"O","p","e","n"," ","n","o","w","?">>
MsgSymbols == <<"!","!","!","!","!","!","!","!">>
Messages == { MsgHi, MsgQuestion, MsgSymbols }

HistoryMax == 20
LongHistory(n) == [i \in 1 .. n |-> IF i % 2 = 1 THEN "user" ELSE "assistant"]

\* request bodies: message is absent or a string, chat_history a list of roles
MkBody(j, m, h) == [json |-> j, message |-> m, chat_history |-> h]
BadBodies ==
    { MkBody(FALSE, Absent, <<>>),
      MkBody(TRUE, Absent, <<>>),
      MkBody(TRUE, Present(<<>>), <<>>),
      MkBody(TRUE, Present(MsgQuestion), <<"system">>),
      MkBody(TRUE, Present(MsgQuestion), LongHistory(HistoryMax + 1)) }
GoodBodies ==
    { MkBody(TRUE, Present(m), <<>>) : m \in Messages }
        \cup { MkBody(TRUE, Present(MsgQuestion), LongHistory(HistoryMax)) }
Bodies == BadBodies \cup GoodBodies

Request(s, a, b) == [sid |-> s, auth |-> a, body |-> b]
Requests == { Request(s, a, b) : s \in SessionHeaders, a \in AuthHeaders, b \in Bodies }
PlainRequests == { Request(Present(SidGood), NoAuth, MkBody(TRUE, Present(m), <<>>)) : m \in { MsgHi, MsgQuestion } }
NoRequest == Request(Absent, NoAuth, MkBody(FALSE, Absent, <<>>))

\* mutant: the body is only parsed as JSON, never validated
RequestSchemaOk_JsonOnly(rt, b) == b.json

\* RequestSchema.parse(body) does not throw, per route
RequestSchemaOk(rt, b) ==
    /\ b.json
    /\ b.message.present
    /\ Len(b.message.value) >= 1
    /\ \A i \in DOMAIN b.chat_history : b.chat_history[i] \in { "user", "assistant" }
    /\ (rt = "ollamaLogged" \/ Len(b.chat_history) <= HistoryMax)

(***************************************************************************)
(* Collaborator answers                                                    *)
(***************************************************************************)
\* getBotProfile(bot_id): null, or a profile whose config.fallback_message is
\* unset or a text
NoBot == [found |-> FALSE, fallback_message |-> Absent]
Bot(f) == [found |-> TRUE, fallback_message |-> f]
FallbackText == <<" ","A","s","k"," ","u","s","."," ">>
BotProfiles == { NoBot, Bot(Absent), Bot(Present(FallbackText)) }

DefaultFallback ==
    <<"I","'","m"," ","n","o","t"," ","a","b","l","e"," ","t","o"," ","h","e","l","p"," ","w","i","t","h"," ","t","h","a","t","."," ","P","l","e","a","s","e"," ","c","o","n","t","a","c","t"," ","s","u","p","p","o","r","t"," ","f","o","r"," ","a","s","s","i","s","t","a","n","c","e",".">>

\* bot.config.fallback_message?.trim() || "I'm not able to help with that. ..."
fallbackMessage(bot) ==
    IF bot.fallback_message.present /\ Trim(bot.fallback_message.value) # <<>>
    THEN Trim(bot.fallback_message.value)
    ELSE DefaultFallback

(***************************************************************************)
(* retrieveContext (lib/upstash/search/retrieval.ts)                       *)
(***************************************************************************)
\* one hit of index.search: content.text a non-blank string, a blank string,
\* or not a string at all
HitKinds == { "text", "blank", "notext" }

\* ... or a text longer than the prompt allows
MAX_CONTEXT_CHARS == 1500
AllHitKinds == HitKinds \cup { "long" }

\* the length of a hit's trimmed text
HitLength(k) == IF k = "long" THEN MAX_CONTEXT_CHARS + 1 ELSE 1

RagLimit == 3

RECURSIVE HitSeqs(_, _)
HitSeqs(n, kinds) ==
    IF n = 0 THEN { <<>> }
    ELSE HitSeqs(n - 1, kinds)
            \cup { Append(hs, k) : hs \in { x \in HitSeqs(n - 1, kinds) : Len(x) = n - 1 }, k \in kinds }

\* what the search collaborator does: getSearchClient() gives null, index.search
\* rejects, or it resolves with at most `limit` hits
SearchUnconfigured == [kind |-> "unconfigured", hits |-> <<>>]
SearchThrows == [kind |-> "throws", hits |-> <<>>]
SearchHits(hs) == [kind |-> "hits", hits |-> hs]
EmptyIndex == SearchHits(<<>>)
SearchOutcomes ==
    { SearchUnconfigured, SearchThrows } \cup { SearchHits(hs) : hs \in HitSeqs(RagLimit, HitKinds) }
AllSearchOutcomes ==
    { SearchUnconfigured, SearchThrows } \cup { SearchHits(hs) : hs \in HitSeqs(RagLimit, AllHitKinds) }

\* hit => typeof content?.text === "string" ? content.text.trim() : null, then
\* .filter(Boolean): the hits that are kept
KeptHit(k) == k \in { "text", "long" }

\* retrieveContext(botId, query): the snippets returned, each by its length;
\* every failure inside is caught and gives []
retrieveContext(search) ==
    IF search.kind \in { "unconfigured", "throws" }
    THEN <<>>
    ELSE LET kept == SelectSeq(search.hits, KeptHit)
         IN  [i \in DOMAIN kept |-> HitLength(kept[i])]

\* history: how the search went, as the request remembers it
SearchCase(search) ==
    CASE search.kind # "hits" -> search.kind
      [] search.hits = <<>> -> "empty"
      [] \A i \in DOMAIN search.hits : search.hits[i] \in { "blank", "notext" } -> "textless"
      [] OTHER -> "hits"

\* mutant: snippets are passed to the prompt as they are
SafeSnippet_Uncut(len) == len

\* c.length > MAX_CONTEXT_CHARS ? c.slice(0, MAX_CONTEXT_CHARS) : c
SafeSnippet(len) == IF len > MAX_CONTEXT_CHARS THEN MAX_CONTEXT_CHARS ELSE len

safeRagContext(ragContext) == [i \in DOMAIN ragContext |-> SafeSnippet(ragContext[i])]

\* buildSystemPrompt(bot, context): the CONTEXT section is written iff
\* context && context.length > 0
HasContextSection(context) == Len(context) > 0

HistoryKeep == 10

\* body.chat_history.slice(-10) in the groq route, the whole history in the
\* others; each entry by its position in the request and its role
trimmedHistory(rt, h) ==
    LET n == IF rt = "groq" /\ Len(h) > HistoryKeep THEN HistoryKeep ELSE Len(h)
    IN  [k \in 1 .. n |-> <<Len(h) - n + k, h[Len(h) - n + k]>>]

\* what the model is called with: [system prompt, ...history, user message]
Prompt(rt, h, ragContext) ==
    [history |-> trimmedHistory(rt, h),
     context |-> safeRagContext(ragContext),
     section |-> HasContextSection(safeRagContext(ragContext))]

(***************************************************************************)
(* The model's output.  A string is kept by its form: plain text (its      *)
(* characters), the JSON text of an object ("json", possibly with white    *)
(* space around it), such a JSON text with prose around it ("wrapped"), or *)
(* a text in braces that is not JSON ("braced").                           *)
(***************************************************************************)
PlainStr(t) == [form |-> "plain", pad |-> FALSE, text |-> t, inner |-> <<>>]
BracedStr(p) == [form |-> "braced", pad |-> p, text |-> <<>>, inner |-> <<>>]
JsonStr(p, obj) == [form |-> "json", pad |-> p, text |-> <<>>, inner |-> <<obj>>]
WrappedStr(obj) == [form |-> "wrapped", pad |-> FALSE, text |-> <<>>, inner |-> <<obj>>]

\* a field of a parsed object: missing, a value of another type, or the value
AbsentField == [t |-> "absent", v |-> <<>>]
OtherField == [t |-> "other", v |-> <<>>]
StringField(s) == [t |-> "string", v |-> <<s>>]
ArrayField(items) == [t |-> "array", v |-> items]
JsonObject(a, q) == [answer |-> a, suggestedQuestions |-> q]

\* array elements: strings (by their characters) or something else
StrItem(t) == [str |-> TRUE, text |-> t]
OtherItem == [str |-> FALSE, text |-> <<>>]
QuestionA == StrItem(<<"A","?">>)
QuestionB == StrItem(<<"B","?">>)
Statement == StrItem(<<"C",".">>)

\* String.prototype.trim
TrimStr(s) ==
    IF s.form = "plain" THEN PlainStr(Trim(s.text)) ELSE [s EXCEPT !.pad = FALSE]

\* s.startsWith("{") && s.endsWith("}")
InBraces(s) ==
    CASE s.form \in { "json", "braced" } -> ~s.pad
      [] s.form = "wrapped" -> FALSE
      [] OTHER -> Len(s.text) > 0 /\ s.text[1] = "{" /\ s.text[Len(s.text)] = "}"

\* JSON.parse(s): the object, or a throw
ParseFails == [ok |-> FALSE, obj |-> <<>>]
ParseOk(obj) == [ok |-> TRUE, obj |-> <<obj>>]
JsonParse(s) == IF s.form = "json" THEN ParseOk(s.inner[1]) ELSE ParseFails

\* s.match(/\{[\s\S]*\}/): from the first "{" to the last "}"
NoMatch == [found |-> FALSE, s |-> <<>>]
Match(s) == [found |-> TRUE, s |-> <<s>>]
MatchBraces(s) ==
    CASE s.form \in { "json", "wrapped" } -> Match(JsonStr(FALSE, s.inner[1]))
      [] s.form = "braced" -> Match(BracedStr(FALSE))
      [] OTHER ->
            LET opens == { i \in DOMAIN s.text : s.text[i] = "{" }
                closes == { i \in DOMAIN s.text : s.text[i] = "}" }
            IN  IF \E i \in opens, j \in closes : i < j
                THEN Match(PlainStr(SubSeq(s.text,
                                           CHOOSE i \in opens : \A k \in opens : i <= k,
                                           CHOOSE j \in closes : \A k \in closes : k <= j)))
                ELSE NoMatch

\* q.endsWith("?")
EndsWithQuestionMark(t) == Len(t) > 0 /\ t[Len(t)] = "?"

\* a value that is not a string (a number, say) where a string was expected
OtherValue == [form |-> "other", pad |-> FALSE, text |-> <<>>, inner |-> <<>>]

\* !s for a string s
EmptyStr(s) == s.form = "plain" /\ s.text = <<>>

\* the value of a field read off a parsed object
FieldValue(f) == IF f.t = "string" THEN f.v[1] ELSE OtherValue

\* JS truthiness of obj.answer: a non-empty string, or a non-string value
\* other than undefined
Truthy(f) == (f.t = "string" /\ ~EmptyStr(f.v[1])) \/ f.t = "other"

MinQuestionsGroq == 0
MinQuestionsOllama == 2
MaxQuestions == 3

MinQuestions(rt) == IF rt = "groq" THEN MinQuestionsGroq ELSE MinQuestionsOllama

\* LLMResponseSchema.parse(obj) does not throw
LLMResponseSchemaOk(rt, obj) ==
    /\ obj.answer.t = "string"
    /\ obj.suggestedQuestions.t = "array"
    /\ \A i \in DOMAIN obj.suggestedQuestions.v :
          /\ obj.suggestedQuestions.v[i].str
          /\ EndsWithQuestionMark(obj.suggestedQuestions.v[i].text)
    /\ Len(obj.suggestedQuestions.v) \in MinQuestions(rt) .. MaxQuestions

\* the handler's `result`: { answer, suggestedQuestions }
NoAnswer == [has |-> FALSE, answer |-> PlainStr(<<>>), suggestedQuestions |-> <<>>]
Result(a, q) == [has |-> TRUE, answer |-> a, suggestedQuestions |-> q]
TextAnswer(t) == Result(PlainStr(t), <<>>)

\* mutant: the nested-JSON cleanup is left out
Unwrap_Skipped(rt, res) == res

\* "Final cleanup": an answer that is itself the JSON text of an object is
\* replaced by that object's answer, and its suggestedQuestions hoisted
Unwrap(rt, res) ==
    LET trimmed == TrimStr(res.answer)
        parsed == JsonParse(trimmed)
    IN  IF InBraces(trimmed) /\ parsed.ok
        THEN LET obj == parsed.obj[1]
                 hoist == /\ obj.answer.t = "string"
                          /\ (rt = "groq" \/ ~EmptyStr(obj.answer.v[1]))
             IN  Result(IF hoist THEN TrimStr(obj.answer.v[1]) ELSE res.answer,
                        IF obj.suggestedQuestions.t = "array"
                        THEN obj.suggestedQuestions.v
                        ELSE res.suggestedQuestions)
        ELSE res

\* what the handler makes of the model's text: a result, or a throw
Threw == [ok |-> FALSE, result |-> NoAnswer]
Parsed(res) == [ok |-> TRUE, result |-> res]

\* groq route: JSON.parse of the cleaned content, else of the text between
\* the first "{" and the last "}", then LLMResponseSchema.parse, then the cleanup
GroqResult(content) ==
    LET direct == JsonParse(TrimStr(content))
        m == MatchBraces(content)
        extracted == IF m.found THEN JsonParse(m.s[1]) ELSE ParseFails
        parsed == IF direct.ok THEN direct ELSE extracted
    IN  IF parsed.ok /\ LLMResponseSchemaOk("groq", parsed.obj[1])
        THEN Parsed(Unwrap("groq", Result(parsed.obj[1].answer.v[1],
                                          parsed.obj[1].suggestedQuestions.v)))
        ELSE Threw

\* StructuredOutputParser.parse(text): JSON.parse, then the schema
ParserOk(rt, content) ==
    LET direct == JsonParse(TrimStr(content))
    IN  direct.ok /\ LLMResponseSchemaOk(rt, direct.obj[1])

RawResult(content) == Result(TrimStr(content), <<>>)

\* ollama route (second variant): parser.parse, else the extracted object's
\* answer, else the raw text; then the cleanup
OllamaResult(content) ==
    LET raw == TrimStr(content)
        m == MatchBraces(raw)
        extracted == IF m.found THEN JsonParse(m.s[1]) ELSE ParseFails
        obj == extracted.obj[1]
    IN  Unwrap("ollama",
            IF ParserOk("ollama", content)
            THEN LET o == JsonParse(raw).obj[1]
                 IN  Result(o.answer.v[1], o.suggestedQuestions.v)
            ELSE IF extracted.ok /\ obj.answer.t = "string" /\ ~EmptyStr(obj.answer.v[1])
            THEN Result(TrimStr(obj.answer.v[1]),
                        IF obj.suggestedQuestions.t = "array"
                        THEN obj.suggestedQuestions.v
                        ELSE <<>>)
            ELSE RawResult(content))

\* .filter(q => typeof q === "string" && q.endsWith("?")).slice(0, 3)
FilterQuestions(items) ==
    LET kept == SelectSeq(items, LAMBDA q : q.str /\ EndsWithQuestionMark(q.text))
    IN  SubSeq(kept, 1, IF Len(kept) < MaxQuestions THEN Len(kept) ELSE MaxQuestions)

\* ollama route (route.ts): the chain's parsed output, else what the catch
\* block makes of parseError.llmOutput
OllamaLoggedResult(content) ==
    LET m == MatchBraces(content)
        extracted == IF m.found THEN JsonParse(m.s[1]) ELSE ParseFails
        obj == extracted.obj[1]
    IN  IF ParserOk("ollamaLogged", content)
        THEN LET o == JsonParse(TrimStr(content)).obj[1]
             IN  Result(o.answer.v[1], o.suggestedQuestions.v)
        ELSE IF extracted.ok /\ Truthy(obj.answer) /\ obj.suggestedQuestions.t = "array"
        THEN Result(FieldValue(obj.answer), FilterQuestions(obj.suggestedQuestions.v))
        ELSE RawResult(content)

(***************************************************************************)
(* What the model backend call ends in                                     *)
(***************************************************************************)
EmptyContent == PlainStr(<<>>)
Replied(content) == [kind |-> "content", content |-> content]
TimedOut == [kind |-> "timeout", content |-> EmptyContent]
JsonValidateFailed == [kind |-> "json_validate_failed", content |-> EmptyContent]
BackendError == [kind |-> "error", content |-> EmptyContent]
NoOutcome == [kind |-> "none", content |-> EmptyContent]

OkText == <<"O","k",".">>
PaddedText == <<" ","O","k","."," ">>
Texts == { <<>>, OkText, PaddedText }

TwoQuestions == <<QuestionA, QuestionB>>
FourQuestions == <<QuestionA, QuestionB, QuestionA, QuestionB>>
ItemSeqs ==
    { <<>>, <<QuestionA>>, TwoQuestions, <<QuestionA, QuestionB, QuestionA>>, FourQuestions,
      <<QuestionA, Statement>>, <<QuestionA, QuestionB, OtherItem>>,
      <<Statement, QuestionA, QuestionB, QuestionA>> }

QuestionFields == { AbsentField, OtherField } \cup { ArrayField(q) : q \in ItemSeqs }
AnswerFields ==
    { AbsentField, OtherField, StringField(BracedStr(FALSE)) }
        \cup { StringField(PlainStr(t)) : t \in Texts }

\* objects whose answer is the JSON text of an object, d levels deep
MaxNesting == 2

\* backend calls that may be left running at a time
MaxAbandoned == 1

RECURSIVE Objects(_)
Objects(d) ==
    IF d = 0
    THEN { JsonObject(a, q) : a \in AnswerFields, q \in QuestionFields }
    ELSE { JsonObject(StringField(JsonStr(p, o)), ArrayField(TwoQuestions)) :
              p \in (IF d = 1 THEN BOOLEAN ELSE { FALSE }), o \in Objects(d - 1) }

AllObjects == UNION { Objects(d) : d \in 0 .. MaxNesting }

AllContents ==
    { PlainStr(t) : t \in Texts } \cup { BracedStr(FALSE) }
        \cup { JsonStr(p, o) : p \in BOOLEAN, o \in AllObjects }
        \cup { WrappedStr(o) : o \in AllObjects }

GoodObject == JsonObject(StringField(PlainStr(OkText)), ArrayField(TwoQuestions))
GoodContent == JsonStr(FALSE, GoodObject)
OverProduced == JsonStr(FALSE, JsonObject(StringField(PlainStr(OkText)), ArrayField(FourQuestions)))
DoubleEncoded == JsonStr(FALSE, JsonObject(StringField(GoodContent), ArrayField(TwoQuestions)))

\* the contents used where the whole request is followed
SomeContents == { GoodContent, OverProduced, DoubleEncoded, PlainStr(OkText) }

(***************************************************************************)
(* Responses: NextResponse.json(body, { status, headers })                 *)
(***************************************************************************)
NoResp ==
    [kind |-> "none", status |-> 0, error |-> "", answer |-> NoAnswer,
     remaining |-> -1, reset |-> -1]
Uncaught == [NoResp EXCEPT !.kind = "uncaught"]
ErrorJson(st, msg) == [NoResp EXCEPT !.kind = "json", !.status = st, !.error = msg]
RateLimitedJson(rl) ==
    [ErrorJson(429, "Too many requests. Please slow down.")
        EXCEPT !.remaining = rl.remaining, !.reset = rl.reset]
AnswerJson(a) == [NoResp EXCEPT !.kind = "json", !.status = 200, !.answer = a]

\* rl: how limit() settled for this request ("none" before it has, or no limiter)
NoPrompt == [history |-> <<>>, context |-> <<>>, section |-> FALSE]
NoLocal ==
    [rl |-> "none", bot |-> NoBot, rag |-> 0, search |-> "none", prompt |-> NoPrompt,
     outcome |-> NoOutcome, result |-> NoAnswer]
NoEff ==
    [limitCalls |-> 0, bodyReads |-> 0, keyLookups |-> 0, botLookups |-> 0,
     ragQueries |-> 0, modelCalls |-> 0, logs |-> <<>>]

RateKeys ==
    { RateKey(BotId, h.value) : h \in { x \in SessionHeaders : x.present /\ SessionIdFormatOk(x.value) } }

(***************************************************************************)
(* The text classifiers on their own                                       *)
(***************************************************************************)
\* validateUserHint(userHint) of the generate-field route flags the hint
validateUserHint(userHint) ==
    LET t == Trim(userHint)
        alpha == CountIn(t, Letters \cup Digits)
        symbols == Len(t) - alpha - CountIn(t, Whitespace)
    IN  /\ t # <<>>
        /\ \/ Len(t) < 3
           \/ 10 * symbols > 6 * Len(t)
           \/ 10 * alpha < 3 * Len(t)
           \/ HasRepeatRun(t, 6)
           \/ ~HasLetterRun(t, 2)

MsgMash == <<"a","s","d","k","j","a","s","k","j","d","h","a","k","s","j","d","h">>
\* a question in Cyrillic script; each character is written by its code point
MsgCyrillic == <<"U+0446","U+0435","U+043D","U+0430","?">>
MsgMixed == <<" ","H","e","L","L","o","!"," ">>
MsgDigits == <<"1","2","3","4","5">>
MsgHiThere == <<"h","i"," ","t","h","e","r","e">>
MsgTwoMarks == <<"t","h","a","n","k","s","!","!">>

\* the messages tried: every listed word, bare and with marks after it, and
\* messages that are none of them
Probes ==
    { w : w \in outOfScopeWords }
        \cup { w \o <<e>> : w \in outOfScopeWords, e \in { "!", ".", "?" } }
        \cup { MsgHi, MsgQuestion, MsgSymbols, MsgMash, MsgCyrillic, MsgMixed, MsgDigits,
                MsgHiThere, MsgTwoMarks, <<>>, <<"a","b">>, <<" ","a"," ">> }

NoTextCheck ==
    [probe |-> <<>>, done |-> FALSE, outOfScope |-> FALSE, gibberish |-> FALSE, hint |-> FALSE]

\* the three classifiers applied to the message
Classify ==
    /\ ~textCheck.done
    /\ textCheck' = [textCheck EXCEPT !.done = TRUE,
                                      !.outOfScope = isObviousOutOfScope(textCheck.probe),
                                      !.gibberish = isObviousGibberish(textCheck.probe),
                                      !.hint = validateUserHint(textCheck.probe)]
    /\ UNCHANGED <<chat, botTable, fieldGen, searchIndex>>

TextIdle == textCheck = NoTextCheck

(***************************************************************************)
(* useBotActions.addBot (lib/hooks/use-bot-config.ts): the count query,    *)
(* the insert and the default rows are separate requests to the database   *)
(***************************************************************************)
AddCalls == { "a1", "a2" }
MaxBotsPerUser == 2

NoAddCall == [pc |-> "idle", valid |-> FALSE, count |-> 0, result |-> "none"]
NoBots == [rows |-> 0, calls |-> [c \in AddCalls |-> NoAddCall]]

BotsIdle == botTable = NoBots

AddReturns(c, result) ==
    botTable' = [botTable EXCEPT !.calls[c].pc = "done", !.calls[c].result = result]

\* addBot(name, description) up to the count query
AddBotStart(c, ready, signedIn, valid) ==
    /\ botTable.calls[c].pc = "idle"
    /\ UNCHANGED <<chat, textCheck, fieldGen, searchIndex>>
    /\ IF ~ready THEN AddReturns(c, "System is initializing. Please wait...")
       ELSE IF ~signedIn THEN AddReturns(c, "User authentication required")
       ELSE botTable' = [botTable EXCEPT !.calls[c].pc = "count", !.calls[c].valid = valid]

\* if (count !== null && count >= 2)
LimitReached(count) == count >= MaxBotsPerUser

\* the count query answers: the limit test and botSchema.safeParse
AddBotCounted(c, countError) ==
    /\ botTable.calls[c].pc = "count"
    /\ UNCHANGED <<chat, textCheck, fieldGen, searchIndex>>
    /\ IF countError THEN AddReturns(c, "Failed to verify bot limit")
       ELSE IF LimitReached(botTable.rows)
       THEN botTable' = [botTable EXCEPT !.calls[c].pc = "done",
                                         !.calls[c].count = botTable.rows,
                                         !.calls[c].result = "Bot limit reached."]
       ELSE IF ~botTable.calls[c].valid
       THEN botTable' = [botTable EXCEPT !.calls[c].pc = "done",
                                         !.calls[c].count = botTable.rows,
                                         !.calls[c].result = "Invalid input"]
       ELSE botTable' = [botTable EXCEPT !.calls[c].pc = "insert",
                                         !.calls[c].count = botTable.rows]

\* the insert into bots answers
AddBotInserted(c, error) ==
    /\ botTable.calls[c].pc = "insert"
    /\ UNCHANGED <<chat, textCheck, fieldGen, searchIndex>>
    /\ IF error THEN AddReturns(c, "insert error")
       ELSE botTable' = [botTable EXCEPT !.rows = @ + 1, !.calls[c].pc = "defaults"]

\* the four default inserts settle; a failure is logged and ignored
AddBotDefaults(c) ==
    /\ botTable.calls[c].pc = "defaults"
    /\ UNCHANGED <<chat, textCheck, fieldGen, searchIndex>>
    /\ AddReturns(c, "ok")

\* the caller has the result; the call slot is free again
AddBotDone(c) ==
    /\ botTable.calls[c].pc = "done"
    /\ UNCHANGED <<chat, textCheck, fieldGen, searchIndex>>
    /\ botTable' = [botTable EXCEPT !.calls[c] = NoAddCall]

(***************************************************************************)
(* POST /api/generate-field (app/api/generate-field/route.ts)              *)
(***************************************************************************)
\* Ratelimit.slidingWindow(10, "1 m") of fieldGenerationRateLimit
FieldGenLimit == 10
\* POSTs for the bot followed within one minute
MaxFieldPosts == 11

DISABLED_AI_FIELDS == { "business_name", "business_type", "product_name" }
FieldsTried == { "persona", "quick_questions", "business_name" }
HintsTried == { [present |-> FALSE, value |-> <<>>],
                [present |-> TRUE, value |-> MsgQuestion],
                [present |-> TRUE, value |-> MsgSymbols] }

\* bodies of a POST: whether GenerateFieldSchema accepts it, the field, the hint
FieldBodies ==
    { [valid |-> v, field |-> f, userHint |-> h] :
        v \in BOOLEAN, f \in FieldsTried, h \in HintsTried }

\* what generateWithOllama gives: it throws, or returns the trimmed text
GenerateOutcomes == { "throws", "[REJECT]", "prose", "name: x", "five questions", "not a list" }

NoFieldBody == [valid |-> FALSE, field |-> "none", userHint |-> [present |-> FALSE, value |-> <<>>]]
NoFieldGen ==
    [pc |-> "idle", body |-> NoFieldBody, posts |-> 0, generated |-> 0,
     status |-> 0, value |-> "none"]

FieldIdle == fieldGen = NoFieldGen

FieldResponds(g, status, value) ==
    fieldGen' = [g EXCEPT !.pc = "done", !.status = status, !.value = value]

\* POST up to the bot_settings query: the schema, the disabled fields, the hint
FieldPost(body) ==
    /\ fieldGen.pc = "idle"
    /\ fieldGen.posts < MaxFieldPosts
    /\ UNCHANGED <<chat, textCheck, botTable, searchIndex>>
    /\ LET g == [fieldGen EXCEPT !.posts = @ + 1, !.body = body]
       IN  IF ~body.valid THEN FieldResponds(g, 400, "Invalid input")
           ELSE IF body.field \in DISABLED_AI_FIELDS
           THEN FieldResponds(g, 400, "AI generation is disabled for this field.")
           ELSE IF body.userHint.present /\ validateUserHint(body.userHint.value)
           THEN FieldResponds(g, 400, "Input is too vague to generate meaningful content.")
           ELSE fieldGen' = [g EXCEPT !.pc = "settings"]

\* getSupabaseAdmin and the bot_settings query; then generateWithOllama is called
FieldSettings(throws) ==
    /\ fieldGen.pc = "settings"
    /\ UNCHANGED <<chat, textCheck, botTable, searchIndex>>
    /\ IF throws THEN FieldResponds(fieldGen, 500, "Internal server error")
       ELSE fieldGen' = [fieldGen EXCEPT !.pc = "generate", !.generated = @ + 1]

\* generateWithOllama settles: [REJECT], the persona guard, quick_questions
FieldGenerated(output) ==
    /\ fieldGen.pc = "generate"
    /\ UNCHANGED <<chat, textCheck, botTable, searchIndex>>
    /\ IF output = "throws" THEN FieldResponds(fieldGen, 500, "Internal server error")
       ELSE IF output = "[REJECT]"
       THEN FieldResponds(fieldGen, 400, "Cannot generate this field from the provided input.")
       ELSE IF fieldGen.body.field = "persona" /\ output = "name: x"
       THEN FieldResponds(fieldGen, 422, "Persona format violation. Please retry.")
       ELSE IF fieldGen.body.field = "quick_questions"
       THEN FieldResponds(fieldGen, 200,
                IF output = "five questions" THEN "five questions" ELSE "default questions")
       ELSE FieldResponds(fieldGen, 200, output)

\* the response is sent
FieldDone ==
    /\ fieldGen.pc = "done"
    /\ UNCHANGED <<chat, textCheck, botTable, searchIndex>>
    /\ fieldGen' = [fieldGen EXCEPT !.pc = "idle"]

\* the minute is over: the POSTs counted so far are older than the window
FieldMinuteOver ==
    /\ fieldGen.pc = "idle"
    /\ fieldGen.posts > 0
    /\ UNCHANGED <<chat, textCheck, botTable, searchIndex>>
    /\ fieldGen' = NoFieldGen

(***************************************************************************)
(* ingestBotContent (lib/upstash/search/ingestion.ts) and the documents    *)
(* retrieveContext can be given (lib/upstash/search/retrieval.ts)          *)
(***************************************************************************)
ConfigFields == { "persona", "botthesis" }

\* values of a bot_configs column: null, or a text
NullText == [present |-> FALSE, value |-> <<>>]
ConfigTexts == { <<>>, <<" ">>, <<"a">>, <<" ","b"," ">> }
ConfigValues == { NullText } \cup { [present |-> TRUE, value |-> t] : t \in ConfigTexts }

\* persona and botthesis of a bot as addBot inserts them
DEFAULT_BOT_CONFIGS == [f \in ConfigFields |-> [present |-> TRUE, value |-> <<"a">>]]

\* a document bot:<botId>:<field> of the index: absent, or its content.text
NoDoc == [present |-> FALSE, value |-> <<>>]

\* data.persona?.trim() is truthy
HasText(v) == v.present /\ Trim(v.value) # <<>>

NoIngest == [pc |-> "idle", data |-> [f \in ConfigFields |-> NullText], success |-> FALSE]
NoIndex ==
    [config |-> [f \in ConfigFields |-> NullText],
     docs |-> [f \in ConfigFields |-> NoDoc],
     ingest |-> NoIngest,
     synced |-> TRUE,
     hit |-> [field |-> "none", present |-> FALSE, value |-> <<>>]]

IndexIdle == searchIndex = NoIndex

\* the owner saves a new value of persona or botthesis
EditConfig(f, v) ==
    /\ searchIndex.ingest.pc = "idle"
    /\ searchIndex.synced
    /\ searchIndex.config[f] # v
    /\ UNCHANGED <<chat, textCheck, botTable, fieldGen>>
    /\ searchIndex' = [searchIndex EXCEPT !.config[f] = v, !.synced = FALSE,
                                          !.hit = NoIndex.hit]

\* ingestBotContent(botId) is called: the select on bot_configs is sent
IngestStart ==
    /\ searchIndex.ingest.pc = "idle"
    /\ UNCHANGED <<chat, textCheck, botTable, fieldGen>>
    /\ searchIndex' = [searchIndex EXCEPT !.ingest = [NoIngest EXCEPT !.pc = "fetch"],
                                          !.hit = NoIndex.hit]

IngestReturns(x, success) ==
    searchIndex' = [x EXCEPT !.ingest.pc = "done", !.ingest.success = success]

\* what ingestBotContent does next once the persona step is behind it
AfterPersona(x) ==
    IF HasText(x.ingest.data["botthesis"])
    THEN searchIndex' = [x EXCEPT !.ingest.pc = "botthesis"]
    ELSE IngestReturns(x, TRUE)

\* the select answers; getSearchClient(); the first upsert is sent
IngestFetched(outcome, configured) ==
    /\ searchIndex.ingest.pc = "fetch"
    /\ UNCHANGED <<chat, textCheck, botTable, fieldGen>>
    /\ IF outcome # "row" \/ ~configured THEN IngestReturns(searchIndex, FALSE)
       ELSE LET x == [searchIndex EXCEPT !.ingest.data = searchIndex.config]
            IN  IF HasText(x.ingest.data["persona"])
                THEN searchIndex' = [x EXCEPT !.ingest.pc = "persona"]
                ELSE AfterPersona(x)

\* index.upsert of bot:<botId>:persona settles
IngestPersona(throws) ==
    /\ searchIndex.ingest.pc = "persona"
    /\ UNCHANGED <<chat, textCheck, botTable, fieldGen>>
    /\ IF throws THEN IngestReturns(searchIndex, FALSE)
       ELSE AfterPersona([searchIndex EXCEPT !.docs["persona"] =
                [present |-> TRUE, value |-> Trim(searchIndex.ingest.data["persona"].value)]])

\* index.upsert of bot:<botId>:botthesis settles
IngestBotthesis(throws) ==
    /\ searchIndex.ingest.pc = "botthesis"
    /\ UNCHANGED <<chat, textCheck, botTable, fieldGen>>
    /\ IF throws THEN IngestReturns(searchIndex, FALSE)
       ELSE IngestReturns([searchIndex EXCEPT !.docs["botthesis"] =
                [present |-> TRUE, value |-> Trim(searchIndex.ingest.data["botthesis"].value)]], TRUE)

\* the caller has { success }
IngestDone ==
    /\ searchIndex.ingest.pc = "done"
    /\ UNCHANGED <<chat, textCheck, botTable, fieldGen>>
    /\ searchIndex' = [searchIndex EXCEPT !.ingest.pc = "idle",
                                          !.synced = @ \/ searchIndex.ingest.success]

\* index.search filtered on the bot gives the document of field f, and
\* retrieveContext keeps its trimmed text
SearchHit(f) ==
    /\ searchIndex.ingest.pc = "idle"
    /\ searchIndex.docs[f].present
    /\ Trim(searchIndex.docs[f].value) # <<>>
    /\ UNCHANGED <<chat, textCheck, botTable, fieldGen>>
    /\ searchIndex' = [searchIndex EXCEPT !.hit =
            [field |-> f, present |-> TRUE, value |-> Trim(searchIndex.docs[f].value)]]

AuxIdle == TextIdle /\ BotsIdle /\ FieldIdle /\ IndexIdle

(***************************************************************************)
(* Initial states                                                          *)
(***************************************************************************)
IdleSlots ==
    /\ pc = [r \in Reqs |-> "idle"]
    /\ input = [r \in Reqs |-> NoRequest]
    /\ local = [r \in Reqs |-> NoLocal]
    /\ eff = [r \in Reqs |-> NoEff]
    /\ resp = [r \in Reqs |-> NoResp]

EmptyStore ==
    /\ now = 0
    /\ hits = [k \in RateKeys |-> [w \in Windows |-> 0]]
    /\ admitted = 0
    /\ abandoned = 0

Init ==
    /\ route \in Routes
    /\ limiterVariant \in (IF route = "groq" THEN LimiterVariants ELSE { "part_015" })
    /\ adminEnv \in BOOLEAN
    /\ EmptyStore
    /\ IdleSlots
    /\ AuxIdle

InitConc ==
    /\ route = "groq"
    /\ limiterVariant \in LimiterVariants
    /\ adminEnv = TRUE
    /\ EmptyStore
    /\ IdleSlots
    /\ AuxIdle

\* a request waiting for the model's answer: a question put to a bot that
\* exists, past every earlier stage of its route
AwaitingModel(r) ==
    LET key == RateKey(BotId, SidGood)
        store == [k \in RateKeys |-> [w \in Windows |-> 0]]
    IN  /\ now = 0
        /\ abandoned = 0
        /\ hits = IF route = "groq"
                  THEN [store EXCEPT ![key] = LimitStore(store[key], 0, ChatLimit)]
                  ELSE store
        /\ admitted = IF route = "groq" THEN 1 ELSE 0
        /\ pc = [x \in Reqs |-> IF x = r THEN "llm" ELSE "idle"]
        /\ input = [x \in Reqs |->
                      IF x = r
                      THEN Request(Present(SidGood), NoAuth, MkBody(TRUE, Present(MsgQuestion), <<>>))
                      ELSE NoRequest]
        /\ \E bot \in BotProfiles \ { NoBot } :
              local = [x \in Reqs |->
                          IF x = r
                          THEN [NoLocal EXCEPT !.rl = IF route = "groq" THEN "allowed" ELSE "none",
                                               !.bot = bot,
                                               !.search = IF route = "groq" THEN "empty" ELSE "none",
                                               !.prompt = Prompt(route, <<>>, <<>>)]
                          ELSE NoLocal]
        /\ eff = [x \in Reqs |->
                     IF x = r
                     THEN [NoEff EXCEPT !.limitCalls = IF route = "groq" THEN 1 ELSE 0,
                                        !.bodyReads = 1,
                                        !.botLookups = 1,
                                        !.ragQueries = IF route = "groq" THEN 1 ELSE 0,
                                        !.modelCalls = 1]
                     ELSE NoEff]
        /\ resp = [x \in Reqs |-> NoResp]

\* a request of the groq route waiting for retrieveContext: a valid body put
\* to a bot that exists
AwaitingRetrieval(r) ==
    LET key == RateKey(BotId, SidGood)
        store == [k \in RateKeys |-> [w \in Windows |-> 0]]
    IN  /\ now = 0
        /\ abandoned = 0
        /\ hits = [store EXCEPT ![key] = LimitStore(store[key], 0, ChatLimit)]
        /\ admitted = 1
        /\ pc = [x \in Reqs |-> IF x = r THEN "rag" ELSE "idle"]
        /\ \E b \in { x \in GoodBodies : ~isObviousGibberish(x.message.value) } :
              input = [x \in Reqs |->
                          IF x = r THEN Request(Present(SidGood), NoAuth, b) ELSE NoRequest]
        /\ \E bot \in BotProfiles \ { NoBot } :
              local = [x \in Reqs |->
                          IF x = r THEN [NoLocal EXCEPT !.rl = "allowed", !.bot = bot] ELSE NoLocal]
        /\ eff = [x \in Reqs |->
                     IF x = r
                     THEN [NoEff EXCEPT !.limitCalls = 1, !.bodyReads = 1, !.botLookups = 1,
                                        !.ragQueries = 1]
                     ELSE NoEff]
        /\ resp = [x \in Reqs |-> NoResp]

InitRag ==
    /\ route = "groq"
    /\ limiterVariant \in LimiterVariants
    /\ adminEnv = TRUE
    /\ AwaitingRetrieval("r1")
    /\ AuxIdle

\* nothing deployed is in use but the classifiers
ChatIdle ==
    /\ route = "groq"
    /\ limiterVariant = "part_015"
    /\ adminEnv = TRUE
    /\ EmptyStore
    /\ IdleSlots

InitText ==
    /\ ChatIdle
    /\ textCheck \in { [NoTextCheck EXCEPT !.probe = m] : m \in Probes }
    /\ BotsIdle
    /\ FieldIdle
    /\ IndexIdle

\* a user with zero, one or two bots and no addBot call under way
InitBots ==
    /\ ChatIdle
    /\ TextIdle
    /\ botTable \in { [NoBots EXCEPT !.rows = n] : n \in 0 .. MaxBotsPerUser }
    /\ FieldIdle
    /\ IndexIdle

\* no POST to generate-field in the last minute
InitField ==
    /\ ChatIdle
    /\ TextIdle
    /\ BotsIdle
    /\ FieldIdle
    /\ IndexIdle

\* a new bot: bot_configs holds the default texts, the index no document yet
InitIndex ==
    /\ ChatIdle
    /\ TextIdle
    /\ BotsIdle
    /\ FieldIdle
    /\ searchIndex = [NoIndex EXCEPT !.config = DEFAULT_BOT_CONFIGS, !.synced = FALSE]

InitRepair ==
    /\ route \in Routes
    /\ limiterVariant \in (IF route = "groq" THEN LimiterVariants ELSE { "part_015" })
    /\ adminEnv = TRUE
    /\ AwaitingModel("r1")
    /\ AuxIdle

(***************************************************************************)
(* The handler, one action per stretch between two awaits                  *)
(***************************************************************************)
Message(r) == input[r].body.message.value

Respond(r, rsp) ==
    /\ pc' = [pc EXCEPT ![r] = "done"]
    /\ resp' = [resp EXCEPT ![r] = rsp]

Goto(r, label) ==
    /\ pc' = [pc EXCEPT ![r] = label]
    /\ UNCHANGED resp

Called(e, what) == [e EXCEPT ![what] = @ + 1]

\* if (!sessionId)
SessionMissing(sid) == ~sid.present \/ sid.value = <<>>

\* else if (!/^[a-zA-Z0-9_-]{8,64}$/.test(sessionId)), groq route only
SessionRejected(rt, sid) == rt = "groq" /\ ~SessionIdFormatOk(sid.value)

MissingSessionError(rt) ==
    IF rt = "ollamaLogged" THEN "x-session-id header required" ELSE "Missing x-session-id header"

\* mutant: the limiter's answer is never looked at
RateLimited_Ignored(rl) == FALSE

\* if (!success)
RateLimited(rl) == ~rl.success

\* mutant: any stored key is accepted, whatever bot it belongs to
ApiKeyRejected_AnyBot(apiKey, bot_id) == ~apiKey.found

\* if (!apiKey || apiKey.bot_id !== bot_id)
ApiKeyRejected(apiKey, bot_id) == ~apiKey.found \/ apiKey.bot_id # bot_id

\* mutant: a missing profile is not noticed
BotMissing_Never(bot) == FALSE

\* if (!bot)
BotMissing(bot) == ~bot.found

\* mutant: the short-circuit does not look at the retrieved context
ShortCircuits_IgnoresRag(ragCount, message) == isObviousOutOfScope(message)

\* if (!hasRagContext && isObviousOutOfScope(body.message))
ShortCircuits(ragCount, message) == ragCount = 0 /\ isObviousOutOfScope(message)

\* whether the gibberish branch awaits logChat({ role: "user" }) before answering
LogsGibberish(rt) == rt = "ollamaLogged"

\* POST entered: getSupabaseAdmin(), params, x-session-id, then the first await
Arrive(r, q) ==
    /\ pc[r] = "idle"
    /\ input' = [input EXCEPT ![r] = q]
    /\ local' = [local EXCEPT ![r] = NoLocal]
    /\ UNCHANGED <<aux, route, limiterVariant, adminEnv, now, hits, admitted, abandoned>>
    /\ IF ~adminEnv
       THEN /\ Respond(r, Uncaught)
            /\ eff' = [eff EXCEPT ![r] = NoEff]
       ELSE IF SessionMissing(q.sid)
       THEN /\ Respond(r, ErrorJson(400, MissingSessionError(route)))
            /\ eff' = [eff EXCEPT ![r] = NoEff]
       ELSE IF SessionRejected(route, q.sid)
       THEN /\ Respond(r, ErrorJson(400, "Invalid session id"))
            /\ eff' = [eff EXCEPT ![r] = NoEff]
       ELSE IF route = "groq"
       THEN /\ Goto(r, "limit")
            /\ eff' = [eff EXCEPT ![r] = Called(NoEff, "limitCalls")]
       ELSE /\ Goto(r, "body")
            /\ eff' = [eff EXCEPT ![r] = Called(NoEff, "bodyReads")]

\* chatRateLimit.limit(rateKey) answers
LimitReply(r) ==
    LET key == RateKey(BotId, input[r].sid.value)
        rl == LimitResult(hits[key], now, ChatLimit)
    IN  /\ pc[r] = "limit"
        /\ hits' = [hits EXCEPT ![key] = LimitStore(hits[key], now, ChatLimit)]
        /\ admitted' = IF rl.success THEN admitted + 1 ELSE admitted
        /\ local' = [local EXCEPT ![r].rl = IF rl.success THEN "allowed" ELSE "denied"]
        /\ UNCHANGED <<aux, route, limiterVariant, adminEnv, now, abandoned, input>>
        /\ IF RateLimited(rl)
           THEN /\ Respond(r, RateLimitedJson(rl))
                /\ UNCHANGED eff
           ELSE /\ Goto(r, "body")
                /\ eff' = [eff EXCEPT ![r] = Called(@, "bodyReads")]

\* mutant: a failing limiter is swallowed and the request let through
LimitThrows_FailOpen(r) ==
    /\ pc[r] = "limit"
    /\ Goto(r, "body")
    /\ local' = [local EXCEPT ![r].rl = "threw"]
    /\ eff' = [eff EXCEPT ![r] = Called(@, "bodyReads")]
    /\ UNCHANGED <<aux, route, limiterVariant, adminEnv, now, hits, admitted, abandoned, input>>

\* chatRateLimit.limit(rateKey) rejects: the handler's outer catch answers
LimitThrows(r) ==
    /\ pc[r] = "limit"
    /\ Respond(r, ErrorJson(500, "Internal server error"))
    /\ local' = [local EXCEPT ![r].rl = "threw"]
    /\ UNCHANGED <<aux, route, limiterVariant, adminEnv, now, hits, admitted, abandoned, input, eff>>

\* from the gibberish guard to the next await
AfterAuth(r) ==
    IF isObviousGibberish(Message(r))
    THEN IF LogsGibberish(route)
         THEN /\ Goto(r, "logGibberish")
              /\ UNCHANGED eff
         ELSE /\ Respond(r, ErrorJson(400, "Message not understandable. Please rephrase."))
              /\ UNCHANGED eff
    ELSE /\ Goto(r, "bot")
         /\ eff' = [eff EXCEPT ![r] = Called(@, "botLookups")]

\* req.json() resolved: RequestSchema.parse, then the Authorization header
ParseBody(r) ==
    /\ pc[r] = "body"
    /\ UNCHANGED <<aux, route, limiterVariant, adminEnv, now, hits, admitted, abandoned, input, local>>
    /\ IF ~RequestSchemaOk(route, input[r].body)
       THEN /\ Respond(r, ErrorJson(500, "Internal server error"))
            /\ UNCHANGED eff
       ELSE IF input[r].auth.bearer
       THEN /\ Goto(r, "apiKey")
            /\ eff' = [eff EXCEPT ![r] = Called(@, "keyLookups")]
       ELSE AfterAuth(r)

\* lookupApiKey(token) answers
ApiKeyReply(r) ==
    /\ pc[r] = "apiKey"
    /\ UNCHANGED <<aux, route, limiterVariant, adminEnv, now, hits, admitted, abandoned, input, local>>
    /\ IF ApiKeyRejected(lookupApiKey(input[r].auth.token), BotId)
       THEN /\ Respond(r, ErrorJson(401, "Invalid API key"))
            /\ UNCHANGED eff
       ELSE AfterAuth(r)

\* getBotProfile(bot_id) answers
BotReply(r, bot) ==
    /\ pc[r] = "bot"
    /\ UNCHANGED <<aux, route, limiterVariant, adminEnv, now, hits, admitted, abandoned, input>>
    /\ IF BotMissing(bot)
       THEN /\ Respond(r, ErrorJson(404, "Bot not found"))
            /\ UNCHANGED <<eff, local>>
       ELSE /\ local' = [local EXCEPT ![r].bot = bot,
                                      ![r].prompt = IF route = "groq"
                                                    THEN NoPrompt
                                                    ELSE Prompt(route, input[r].body.chat_history, <<>>)]
            /\ IF route = "groq"
               THEN /\ Goto(r, "rag")
                    /\ eff' = [eff EXCEPT ![r] = Called(@, "ragQueries")]
               ELSE /\ Goto(r, "llm")
                    /\ eff' = [eff EXCEPT ![r] = Called(@, "modelCalls")]

\* mutant: a failure of retrieval ends the request in the outer catch
RagReply_Propagates(r, search) ==
    /\ pc[r] = "rag"
    /\ local' = [local EXCEPT ![r].rag = Len(retrieveContext(search)),
                              ![r].search = SearchCase(search),
                              ![r].prompt = Prompt(route, input[r].body.chat_history, retrieveContext(search))]
    /\ UNCHANGED <<aux, route, limiterVariant, adminEnv, now, hits, admitted, abandoned, input>>
    /\ IF search.kind # "hits"
       THEN /\ Respond(r, ErrorJson(500, "Internal server error"))
            /\ UNCHANGED eff
       ELSE IF ShortCircuits(Len(retrieveContext(search)), Message(r))
       THEN /\ Respond(r, AnswerJson(TextAnswer(fallbackMessage(local[r].bot))))
            /\ UNCHANGED eff
       ELSE /\ Goto(r, "llm")
            /\ eff' = [eff EXCEPT ![r] = Called(@, "modelCalls")]

\* retrieveContext(bot_id, body.message) settles, the search collaborator
\* having behaved as `search`; the handler's own try/catch makes a rejection
\* an empty context as well
RagReply(r, search) ==
    LET ragContext == retrieveContext(search)
        ragCount == Len(ragContext)
    IN  /\ pc[r] = "rag"
        /\ local' = [local EXCEPT ![r].rag = ragCount,
                                  ![r].search = SearchCase(search),
                                  ![r].prompt = IF ShortCircuits(ragCount, Message(r))
                                                THEN NoPrompt
                                                ELSE Prompt(route, input[r].body.chat_history, ragContext)]
        /\ UNCHANGED <<aux, route, limiterVariant, adminEnv, now, hits, admitted, abandoned, input>>
        /\ IF ShortCircuits(ragCount, Message(r))
           THEN /\ Respond(r, AnswerJson(TextAnswer(fallbackMessage(local[r].bot))))
                /\ UNCHANGED eff
           ELSE /\ Goto(r, "llm")
                /\ eff' = [eff EXCEPT ![r] = Called(@, "modelCalls")]

\* the outcomes a backend call can have: only the groq route races a timer
\* and knows the backend's json_validate_failed error
OutcomesOf(rt, contents) ==
    { Replied(c) : c \in contents } \cup { BackendError }
        \cup (IF rt = "groq" THEN { TimedOut, JsonValidateFailed } ELSE {})

ModelOutcomesOf(rt) == OutcomesOf(rt, SomeContents)

Logged(parsed) == [next |-> "log", answer |-> parsed.result]
Fallback == [next |-> "fallback", answer |-> NoAnswer]
Failed == [next |-> "fail", answer |-> NoAnswer]

\* what the handler makes of the backend's outcome: a result to log and send,
\* a fallback answer sent at once, or the 500 of the inner catch
ModelStep(rt, outcome) ==
    CASE rt = "groq" /\ outcome.kind = "content" ->
            IF GroqResult(outcome.content).ok THEN Logged(GroqResult(outcome.content)) ELSE Failed
      [] rt = "groq" /\ outcome.kind = "json_validate_failed" -> Fallback
      [] rt = "groq" -> Failed
      [] rt = "ollama" /\ outcome.kind = "content" -> Logged(Parsed(OllamaResult(outcome.content)))
      [] rt = "ollama" -> Failed
      [] OTHER -> Logged(Parsed(OllamaLoggedResult(outcome.content)))

\* the backend calls left running once the race is settled: Promise.race
\* does not stop the loser
Abandon(outcome, n) == IF outcome.kind = "timeout" THEN n + 1 ELSE n

\* the model backend call settles (or the 50 s timer fires first)
LlmReply(r, outcome) ==
    LET step == ModelStep(route, outcome)
    IN  /\ pc[r] = "llm"
        /\ outcome.kind = "timeout" => abandoned < MaxAbandoned
        /\ abandoned' = Abandon(outcome, abandoned)
        /\ UNCHANGED <<aux, route, limiterVariant, adminEnv, now, hits, admitted, input, eff>>
        /\ CASE step.next = "log" ->
                  /\ local' = [local EXCEPT ![r].result = step.answer, ![r].outcome = outcome]
                  /\ Goto(r, IF route = "ollamaLogged" THEN "logUser" ELSE "logAssistant")
             [] step.next = "fallback" ->
                  /\ Respond(r, AnswerJson(TextAnswer(fallbackMessage(local[r].bot))))
                  /\ local' = [local EXCEPT ![r].outcome = outcome]
             [] OTHER ->
                  /\ Respond(r, ErrorJson(500, "Model invocation failed"))
                  /\ local' = [local EXCEPT ![r].outcome = outcome]

\* a backend call whose race was lost completes: nobody is waiting for it
LateCompletion ==
    /\ abandoned > 0
    /\ abandoned' = abandoned - 1
    /\ UNCHANGED <<aux, route, limiterVariant, adminEnv, now, hits, admitted, pc, input, local, eff, resp>>

LogEntry(role, ok) == [role |-> role, ok |-> ok]

\* mutant: a rejected log write ends the request in the outer catch
LogReply_FailsRequest(r, ok) ==
    /\ pc[r] \in { "logGibberish", "logUser", "logAssistant" }
    /\ UNCHANGED <<aux, route, limiterVariant, adminEnv, now, hits, admitted, abandoned, input, local>>
    /\ eff' = [eff EXCEPT ![r].logs =
                  Append(@, LogEntry(IF pc[r] = "logAssistant" THEN "assistant" ELSE "user", ok))]
    /\ CASE ~ok -> Respond(r, ErrorJson(500, "Internal server error"))
         [] pc[r] = "logGibberish" ->
                Respond(r, ErrorJson(400, "Message not understandable. Please rephrase."))
         [] pc[r] = "logUser" -> Goto(r, "logAssistant")
         [] OTHER -> Respond(r, AnswerJson(local[r].result))

\* await logChat({...}).catch(...) settles; ok = FALSE is a swallowed rejection
LogReply(r, ok) ==
    /\ pc[r] \in { "logGibberish", "logUser", "logAssistant" }
    /\ UNCHANGED <<aux, route, limiterVariant, adminEnv, now, hits, admitted, abandoned, input, local>>
    /\ eff' = [eff EXCEPT ![r].logs =
                  Append(@, LogEntry(IF pc[r] = "logAssistant" THEN "assistant" ELSE "user", ok))]
    /\ CASE pc[r] = "logGibberish" ->
                Respond(r, ErrorJson(400, "Message not understandable. Please rephrase."))
         [] pc[r] = "logUser" -> Goto(r, "logAssistant")
         [] OTHER -> Respond(r, AnswerJson(local[r].result))

\* the response has been sent; the slot takes the next request
Finish(r) ==
    /\ pc[r] = "done"
    /\ pc' = [pc EXCEPT ![r] = "idle"]
    /\ input' = [input EXCEPT ![r] = NoRequest]
    /\ local' = [local EXCEPT ![r] = NoLocal]
    /\ eff' = [eff EXCEPT ![r] = NoEff]
    /\ resp' = [resp EXCEPT ![r] = NoResp]
    /\ UNCHANGED <<aux, route, limiterVariant, adminEnv, now, hits, admitted, abandoned>>

\* time passes; entering a window zeroes the bucket two windows back (expired)
Tick ==
    LET w == WindowOf(now + 1)
    IN  /\ now < MaxNow
        /\ now' = now + 1
        /\ admitted' = IF w = WindowOf(now) THEN admitted ELSE 0
        /\ hits' = IF w = WindowOf(now)
                   THEN hits
                   ELSE [k \in RateKeys |->
                            [v \in Windows |-> IF v < w - 1 THEN 0 ELSE hits[k][v]]]
        /\ UNCHANGED <<aux, route, limiterVariant, adminEnv, abandoned, pc, input, local, eff, resp>>

AllIdle == \A r \in Reqs : pc[r] = "idle"

\* one request at a time, any request
ArriveAlone == \E r \in Reqs, q \in Requests : AllIdle /\ Arrive(r, q)

\* overlapping requests of one session, every collaborator answering normally
ArriveAny == \E r \in Reqs, q \in PlainRequests : Arrive(r, q)
BotFound == \E r \in Reqs : BotReply(r, Bot(Present(FallbackText)))
RagNone == \E r \in Reqs : RagReply(r, EmptyIndex)
LlmValid == \E r \in Reqs : LlmReply(r, Replied(GoodContent))
LogStored == \E r \in Reqs : LogReply(r, TRUE)

Limit == \E r \in Reqs : LimitReply(r)
LimitFails == \E r \in Reqs : LimitThrows(r)
Body == \E r \in Reqs : ParseBody(r)
ApiKey == \E r \in Reqs : ApiKeyReply(r)
BotLookup == \E r \in Reqs, bot \in BotProfiles : BotReply(r, bot)
Rag == \E r \in Reqs, s \in SearchOutcomes : RagReply(r, s)
Llm == \E r \in Reqs, o \in ModelOutcomesOf(route) : LlmReply(r, o)
Log == \E r \in Reqs, ok \in BOOLEAN : LogReply(r, ok)
Done == \E r \in Reqs : Finish(r)
RagAny == \E r \in Reqs, s \in AllSearchOutcomes : RagReply(r, s)
LlmAny == \E r \in Reqs, o \in OutcomesOf(route, AllContents) : LlmReply(r, o)

Next ==
    \/ ArriveAlone
    \/ Limit
    \/ LimitFails
    \/ Body
    \/ ApiKey
    \/ BotLookup
    \/ Rag
    \/ Llm
    \/ Log
    \/ LateCompletion
    \/ Done

NextConc ==
    \/ ArriveAny
    \/ Limit
    \/ Body
    \/ BotFound
    \/ RagNone
    \/ LlmValid
    \/ LogStored
    \/ Done
    \/ Tick

\* the model's answer in every shape, for one request that waits for it
NextRepair ==
    \/ LlmAny
    \/ Log
    \/ LateCompletion

Spec == Init /\ [][Next]_vars

SpecRepair == InitRepair /\ [][NextRepair]_vars

\* retrieval in every shape, for one request that waits for it
NextRag ==
    \/ RagAny
    \/ LlmValid
    \/ LogStored

SpecRag == InitRag /\ [][NextRag]_vars

NextText == Classify

AddStart == \E c \in AddCalls, ready \in BOOLEAN, signedIn \in BOOLEAN, valid \in BOOLEAN :
                AddBotStart(c, ready, signedIn, valid)
AddCounted == \E c \in AddCalls, countError \in BOOLEAN : AddBotCounted(c, countError)
AddInserted == \E c \in AddCalls, error \in BOOLEAN : AddBotInserted(c, error)
AddDefaults == \E c \in AddCalls : AddBotDefaults(c)
AddDone == \E c \in AddCalls : AddBotDone(c)

\* addBot calls of one user, overlapping as they may
NextBots ==
    \/ AddStart
    \/ AddCounted
    \/ AddInserted
    \/ AddDefaults
    \/ AddDone

SpecBots == InitBots /\ [][NextBots]_vars

FieldPosted == \E body \in FieldBodies : FieldPost(body)
FieldSettled == \E throws \in BOOLEAN : FieldSettings(throws)
FieldAnswered == \E output \in GenerateOutcomes : FieldGenerated(output)

\* POSTs to generate-field for one bot, one after another
NextField ==
    \/ FieldPosted
    \/ FieldSettled
    \/ FieldAnswered
    \/ FieldDone
    \/ FieldMinuteOver

SpecField == InitField /\ [][NextField]_vars

ConfigEdited == \E f \in ConfigFields, v \in ConfigValues : EditConfig(f, v)
IngestAnswered == \E outcome \in { "row", "error", "throws" }, configured \in BOOLEAN :
                      IngestFetched(outcome, configured)
PersonaUpserted == \E throws \in BOOLEAN : IngestPersona(throws)
BotthesisUpserted == \E throws \in BOOLEAN : IngestBotthesis(throws)
ContextFound == \E f \in ConfigFields : SearchHit(f)

\* edits of the configuration, each followed by ingestions until one succeeds
NextIndex ==
    \/ ConfigEdited
    \/ IngestStart
    \/ IngestAnswered
    \/ PersonaUpserted
    \/ BotthesisUpserted
    \/ IngestDone
    \/ ContextFound

SpecIndex == InitIndex /\ [][NextIndex]_vars

SpecText == InitText /\ [][NextText]_vars

SpecConc == InitConc /\ [][NextConc]_vars

(***************************************************************************)
(* Properties.  The request-side predicates below are written on the       *)
(* request alone, apart from the handler's own tests.                      *)
(***************************************************************************)
Answered(r) == pc[r] = "done" /\ resp[r].kind = "json"

SidWellFormed(sid) ==
    /\ sid.present
    /\ Len(sid.value) \in 8 .. 64
    /\ \A i \in DOMAIN sid.value :
          sid.value[i] \in Range(LowerSeq) \cup Range(UpperSeq) \cup Range(DigitSeq) \cup { "_", "-" }

BodyWellFormed(b) == b \in GoodBodies

\* the Bearer token, if any, is a stored key of the path's bot
CredentialOk(q) == ~q.auth.bearer \/ q.auth.token = "k_bot1"

NoStageAfterLimit(e) ==
    /\ e.bodyReads = 0
    /\ e.keyLookups = 0
    /\ e.botLookups = 0
    /\ e.ragQueries = 0
    /\ e.modelCalls = 0
    /\ e.logs = <<>>

\* C1: in the groq handler a model call has been made only by a request that
\* passed every earlier gate (session id well-formed, limiter allowed, body
\* valid, credential (if any) of this bot, message not gibberish, bot found,
\* short-circuit not taken), and a request answered 400, 401, 404 or 429 has
\* made no model call and no RAG query.
C1_ModelOnlyAfterGates ==
    \A r \in Reqs :
        /\ (route = "groq" /\ eff[r].modelCalls > 0) =>
              /\ SidWellFormed(input[r].sid)
              /\ local[r].rl = "allowed"
              /\ BodyWellFormed(input[r].body)
              /\ CredentialOk(input[r])
              /\ ~isObviousGibberish(Message(r))
              /\ local[r].bot.found
              /\ ~(local[r].rag = 0 /\ isObviousOutOfScope(Message(r)))
              /\ eff[r].modelCalls = 1
        /\ (Answered(r) /\ resp[r].status \in { 400, 401, 404, 429 }) =>
              /\ eff[r].modelCalls = 0
              /\ eff[r].ragQueries = 0

C1_Witness ==
    \E r \in Reqs :
        /\ route = "groq"
        /\ Answered(r)
        /\ resp[r].status = 200
        /\ local[r].outcome.kind = "content"
        /\ eff[r].modelCalls = 1
        /\ input[r].auth.bearer

\* C2: a request the limiter denied is answered 429 with the limiter's
\* remaining and reset values, and nothing else has run for it: no body read,
\* no key lookup, no bot lookup, no RAG query, no model call, no log entry.
C2_DeniedStep ==
    \A r \in Reqs :
        (pc[r] = "limit" /\ local'[r].rl = "denied") =>
            /\ pc'[r] = "done"
            /\ resp'[r] = [ kind |-> "json", status |-> 429,
                            error |-> "Too many requests. Please slow down.",
                            answer |-> NoAnswer,
                            remaining |-> LimitResult(hits[RateKey(BotId, input[r].sid.value)], now, ChatLimit).remaining,
                            reset |-> LimitResult(hits[RateKey(BotId, input[r].sid.value)], now, ChatLimit).reset ]
            /\ NoStageAfterLimit(eff'[r])

C2_DeniedIs429 ==
    /\ [][C2_DeniedStep]_vars
    /\ [](\A r \in Reqs :
            local[r].rl = "denied" =>
                /\ Answered(r)
                /\ resp[r].status = 429
                /\ NoStageAfterLimit(eff[r]))

C2_Witness ==
    \E r \in Reqs :
        /\ local[r].rl = "denied"
        /\ Answered(r)
        /\ resp[r].status = 429
        /\ resp[r].remaining = 0
        /\ BodyWellFormed(input[r].body)

\* C3 (as claimed): the chat limiter's limit is 20 per window, so a call is
\* denied only when 20 calls of its key have already been admitted in the window.
C3_LimitIsTwenty ==
    \A r \in Reqs : local[r].rl = "denied" => admitted >= 20

C6_BadKeyIs401First ==
    \A r \in Reqs :
        /\ (pc[r] # "idle" /\ ~CredentialOk(input[r])) =>
              /\ eff[r].botLookups = 0
              /\ eff[r].ragQueries = 0
              /\ eff[r].modelCalls = 0
              /\ eff[r].logs = <<>>
              /\ (pc[r] = "done" /\ eff[r].keyLookups = 1) => resp[r].status = 401
        /\ (Answered(r) /\ resp[r].status = 401) => ~CredentialOk(input[r])

C6_Witness ==
    \E r \in Reqs :
        /\ input[r].auth = Bearer("k_bot2")
        /\ isObviousGibberish(Message(r))
        /\ Answered(r)
        /\ resp[r].status = 401

\* C7 (as claimed): a request with a mismatching credential is answered 401
\* before anything else: it has used no rate-limit quota, whatever its body
\* and whatever quota is left (the limiter itself not failing).
C7_BadKeyBeforeAll ==
    \A r \in Reqs :
        (Answered(r) /\ SidWellFormed(input[r].sid) /\ ~CredentialOk(input[r])
            /\ local[r].rl # "threw") =>
            /\ resp[r].status = 401
            /\ eff[r].limitCalls = 0

\* C7 (amended): in the groq route a request with a mismatching credential is
\* answered 401 exactly when its session id is well formed, the limiter
\* admitted it and its body is valid, and it has then used one unit of quota;
\* otherwise it is answered 400 (session id), 429 (limiter denied) or 500
\* (limiter failed, body invalid).
C7_BadKeyAfterLimitAndBody ==
    \A r \in Reqs :
        (route = "groq" /\ Answered(r) /\ ~CredentialOk(input[r])) =>
            /\ resp[r].status =
                  ( CASE ~SidWellFormed(input[r].sid) -> 400
                      [] local[r].rl = "denied" -> 429
                      [] local[r].rl = "threw" -> 500
                      [] ~BodyWellFormed(input[r].body) -> 500
                      [] OTHER -> 401 )
            /\ resp[r].status = 401 => (eff[r].limitCalls = 1 /\ local[r].rl = "allowed")

C7_Witness ==
    \E r \in Reqs :
        /\ route = "groq"
        /\ ~CredentialOk(input[r])
        /\ Answered(r)
        /\ resp[r].status = 401
        /\ eff[r].limitCalls = 1
        /\ admitted > 0

\* C8 (as claimed): a request whose body is not valid JSON, has no or an empty
\* message, a chat_history role other than user/assistant or more than 20
\* chat_history entries is answered 400, with no model call.
C8_BadBodyIs400 ==
    \A r \in Reqs :
        (Answered(r) /\ eff[r].bodyReads = 1 /\ ~BodyWellFormed(input[r].body)) =>
            /\ resp[r].status = 400
            /\ eff[r].modelCalls = 0

\* C9 (as claimed): in every route a request whose x-session-id is missing or
\* malformed is answered 400 and the limiter is not consulted for it.
C9_BadSessionIs400 ==
    \A r \in Reqs :
        (Answered(r) /\ ~SidWellFormed(input[r].sid)) =>
            /\ resp[r].status = 400
            /\ eff[r].limitCalls = 0

\* C10 (as claimed): a request rejected as gibberish has had its user message
\* logged (one user entry) and has made no bot lookup and no model call.
C10_GibberishLogged ==
    \A r \in Reqs :
        (Answered(r) /\ resp[r].error = "Message not understandable. Please rephrase.") =>
            /\ resp[r].status = 400
            /\ Len(eff[r].logs) = 1
            /\ eff[r].logs[1].role = "user"
            /\ eff[r].botLookups = 0
            /\ eff[r].modelCalls = 0

\* the answer sent when the handler falls back, as the handler computes it
SentFallback(r) ==
    /\ Answered(r)
    /\ resp[r].status = 200
    /\ resp[r].answer = TextAnswer(fallbackMessage(local[r].bot))

PastRag(r) == route = "groq" /\ local[r].search # "none" /\ pc[r] # "idle"

\* C12: in the groq route, a request whose retrieved context is empty and
\* whose message is obviously out of scope is answered 200 with the fallback
\* message, no suggested questions and no model call; a request whose
\* retrieved context is not empty is never short-circuited: the model is
\* called, whatever the message.
C12_ShortCircuitOnlyWithoutContext ==
    \A r \in Reqs :
        PastRag(r) =>
            /\ (local[r].rag = 0 /\ isObviousOutOfScope(Message(r))) =>
                  /\ SentFallback(r)
                  /\ resp[r].answer.suggestedQuestions = <<>>
                  /\ eff[r].modelCalls = 0
            /\ (local[r].rag > 0 \/ ~isObviousOutOfScope(Message(r))) => eff[r].modelCalls = 1

C12_Witness ==
    \E r \in Reqs :
        /\ PastRag(r)
        /\ Message(r) = MsgHi
        /\ local[r].rag > 0
        /\ Answered(r)
        /\ resp[r].status = 200
        /\ eff[r].modelCalls = 1

\* the handler answered with a fallback: the short-circuit, or the backend's
\* json_validate_failed
TookFallback(r) ==
    /\ Answered(r)
    /\ resp[r].status = 200
    /\ \/ route = "groq" /\ local[r].search # "none" /\ eff[r].modelCalls = 0
       \/ local[r].outcome.kind = "json_validate_failed"

\* C13: whenever the handler takes a fallback path, the answer is the bot's
\* configured fallback_message, character for character.
C13_FallbackVerbatim ==
    \A r \in Reqs :
        (TookFallback(r) /\ local[r].bot.fallback_message.present) =>
            resp[r].answer.answer = PlainStr(local[r].bot.fallback_message.value)

\* a 200 response carrying an answer
Success(r) == Answered(r) /\ resp[r].status = 200

IsQuestion(q) == q.str /\ Len(q.text) > 0 /\ q.text[Len(q.text)] = "?"

\* C14: every 200 response has at most 3 suggestedQuestions, each a string
\* ending in "?".
C14_SchemaClosure ==
    \A r \in Reqs :
        Success(r) =>
            /\ Len(resp[r].answer.suggestedQuestions) <= 3
            /\ \A i \in DOMAIN resp[r].answer.suggestedQuestions :
                  IsQuestion(resp[r].answer.suggestedQuestions[i])

\* the string is the JSON text of an object with both an answer and a
\* suggestedQuestions member
HoldsAnswerPair(s) ==
    /\ s.form = "json"
    /\ s.inner[1].answer.t # "absent"
    /\ s.inner[1].suggestedQuestions.t # "absent"

\* C15: in a 200 response the answer never parses as a JSON object with a
\* nested answer/suggestedQuestions pair.
C15_NoRawJsonLeak ==
    \A r \in Reqs : Success(r) => ~HoldsAnswerPair(resp[r].answer.answer)

\* the model's text is the JSON of a schema-valid object (groq schema) whose
\* answer, trimmed, starts with "{" and ends with "}"
BracedAnswer(c) ==
    /\ c.form = "json"
    /\ c.inner[1].answer.t = "string"
    /\ c.inner[1].answer.v[1].form \in { "json", "braced" }
    /\ c.inner[1].suggestedQuestions.t = "array"
    /\ Len(c.inner[1].suggestedQuestions.v) <= 3
    /\ \A i \in DOMAIN c.inner[1].suggestedQuestions.v : IsQuestion(c.inner[1].suggestedQuestions.v[i])

\* one level of unwrapping, written out on the model's text
OneLevelUp(c) ==
    LET outer == c.inner[1]
        s == outer.answer.v[1]
        in == s.inner[1]
    IN  IF s.form = "json"
        THEN [has |-> TRUE,
              answer |-> IF in.answer.t # "string" THEN s
                         ELSE IF in.answer.v[1].form = "plain"
                         THEN PlainStr(Trim(in.answer.v[1].text))
                         ELSE [in.answer.v[1] EXCEPT !.pad = FALSE],
              suggestedQuestions |-> IF in.suggestedQuestions.t = "array"
                                     THEN in.suggestedQuestions.v
                                     ELSE outer.suggestedQuestions.v]
        ELSE [has |-> TRUE, answer |-> s, suggestedQuestions |-> outer.suggestedQuestions.v]

\* C16: in the groq route, when the model returns a schema-valid object whose
\* answer is a string in braces, the result is unwrapped exactly one level: if
\* the string parses to an object with a string answer, the final answer is
\* that inner answer, trimmed, and the inner suggestedQuestions, if an array,
\* replace the outer ones; if the string does not parse, the outer answer and
\* questions are kept unchanged.  The response carries that result.
C16_UnwrapOneLevel ==
    \A r \in Reqs :
        (route = "groq" /\ local[r].outcome.kind = "content" /\ BracedAnswer(local[r].outcome.content)) =>
            /\ local[r].result = OneLevelUp(local[r].outcome.content)
            /\ Answered(r) => resp[r] = AnswerJson(OneLevelUp(local[r].outcome.content))

C16_Witness ==
    \E r \in Reqs :
        /\ route = "groq"
        /\ Success(r)
        /\ local[r].outcome.kind = "content"
        /\ BracedAnswer(local[r].outcome.content)
        /\ local[r].outcome.content.inner[1].answer.v[1].form = "json"
        /\ local[r].outcome.content.inner[1].answer.v[1].pad
        /\ resp[r].answer.answer = PlainStr(OkText)
        /\ resp[r].answer.suggestedQuestions = <<QuestionA>>

\* the model's text is the JSON of an object with a non-empty plain answer and
\* an array of suggestedQuestions that is too long or holds a non-question
OverProduces(c) ==
    /\ c.form = "json"
    /\ c.inner[1].answer.t = "string"
    /\ c.inner[1].answer.v[1].form = "plain"
    /\ c.inner[1].answer.v[1].text # <<>>
    /\ c.inner[1].suggestedQuestions.t = "array"
    /\ \/ Len(c.inner[1].suggestedQuestions.v) > 3
       \/ \E i \in DOMAIN c.inner[1].suggestedQuestions.v : ~IsQuestion(c.inner[1].suggestedQuestions.v[i])

\* C17: when the model's parsed output has more than 3 suggestedQuestions, or
\* elements not ending in "?", the turn still ends in a 200 response, with
\* the list truncated and filtered.
C17_OverProductionRepaired ==
    \A r \in Reqs :
        (Answered(r) /\ local[r].outcome.kind = "content" /\ OverProduces(local[r].outcome.content)) =>
            /\ resp[r].status = 200
            /\ Len(resp[r].answer.suggestedQuestions) <= 3
            /\ \A i \in DOMAIN resp[r].answer.suggestedQuestions :
                  IsQuestion(resp[r].answer.suggestedQuestions[i])

\* the model invocation failed: timeout, backend error, or a text with no
\* JSON object in it
InvocationFailed(o) ==
    \/ o.kind \in { "timeout", "error", "json_validate_failed" }
    \/ o.kind = "content" /\ o.content.form \in { "plain", "braced" }

\* C18: a failed model invocation is answered 500 "Model invocation failed",
\* or, only for the backend's JSON-validation failure, 200 with the bot's
\* fallback message and no suggested questions; never any other success.
C18_FailureNeverSucceeds ==
    \A r \in Reqs :
        (Answered(r) /\ InvocationFailed(local[r].outcome)) =>
            \/ resp[r].status = 500 /\ resp[r].error = "Model invocation failed"
            \/ /\ local[r].outcome.kind = "json_validate_failed"
               /\ SentFallback(r)
               /\ resp[r].answer.suggestedQuestions = <<>>

\* the step in which the 50 s timer wins the race for request r
TimeoutStep(r) == pc[r] = "llm" /\ pc'[r] # "llm" /\ local'[r].outcome.kind = "timeout"

C19_TimeoutCancelsStep ==
    \A r \in Reqs :
        TimeoutStep(r) =>
            /\ resp'[r] = ErrorJson(500, "Model invocation failed")
            /\ eff'[r].logs = eff[r].logs
            /\ abandoned' = abandoned

\* C19: when the 50 s timer fires first the turn fails (500, nothing logged)
\* and the backend call is cancelled: no call is left running.
C19_TimeoutCancelsCall == [][C19_TimeoutCancelsStep]_vars

\* the response the handler sends once its log writes have settled
AfterLogs(r) ==
    IF eff[r].logs[Len(eff[r].logs)].role = "assistant"
    THEN AnswerJson(local[r].result)
    ELSE ErrorJson(400, "Message not understandable. Please rephrase.")

\* C20: the response of a request that wrote to the chat log does not depend
\* on whether its log writes succeeded: it is the 200 with the handler's
\* result (or the gibberish 400) either way.
C20_LogFailureInvisible ==
    \A r \in Reqs :
        (Answered(r) /\ eff[r].logs # <<>>) => resp[r] = AfterLogs(r)

C20_Witness ==
    \E r \in Reqs :
        /\ Success(r)
        /\ \E i \in DOMAIN eff[r].logs : ~eff[r].logs[i].ok /\ eff[r].logs[i].role = "assistant"

\* the letters of any script, for the claims about text
AnyLetters == Letters \cup { "U+0446", "U+0435", "U+043D", "U+0430" }

\* C23: isObviousOutOfScope(message) is true exactly when the trimmed,
\* lower-cased message has fewer than 3 characters, or is one of the listed
\* words with at most one "!" or "." after it, or holds no letter at all (of
\* any script).
C23_OutOfScopeExactly ==
    LET t == Trim(ToLower(textCheck.probe))
        bare == IF t # <<>> /\ t[Len(t)] \in { "!", "." } THEN SubSeq(t, 1, Len(t) - 1) ELSE t
    IN  textCheck.done =>
            (textCheck.outOfScope <=>
                \/ Len(t) < 3
                \/ t \in outOfScopeWords
                \/ bare \in outOfScopeWords
                \/ \A i \in DOMAIN t : t[i] \notin AnyLetters)

\* C24: the message "asdkjaskjdhaksjdh" is flagged by the input sanitizer.
C24_MashRejected ==
    (textCheck.done /\ textCheck.probe = MsgMash) => textCheck.gibberish

\* the roles of the log writes a request has made, in order
LogRoles(r) == [i \in DOMAIN eff[r].logs |-> eff[r].logs[i].role]

\* C21: a turn answered 200 from the model's output has written exactly two
\* log entries, the user message and then the assistant message.
C21_TwoLogsInOrder ==
    \A r \in Reqs :
        (Success(r) /\ local[r].outcome.kind = "content") => LogRoles(r) = <<"user", "assistant">>

\* C22: every response other than a request-level rejection (400, 401, 404,
\* 429) carries an answer that is a non-empty string, with suggestedQuestions.
C22_ResultAlwaysPopulated ==
    \A r \in Reqs :
        (Answered(r) /\ resp[r].status \notin { 400, 401, 404, 429 }) =>
            /\ resp[r].answer.has
            /\ resp[r].answer.answer.form # "other"
            /\ ~(resp[r].answer.answer.form = "plain" /\ resp[r].answer.answer.text = <<>>)

\* C29: every chat request ends with a JSON response built by the handler;
\* no exception escapes it.
C29_AlwaysJsonResponse ==
    \A r \in Reqs : pc[r] = "done" => resp[r].kind = "json"

\* the last min(10, n) entries of the request's history, each with its
\* position and role
LastTen(h) ==
    LET n == IF Len(h) < 10 THEN Len(h) ELSE 10
    IN  [k \in 1 .. n |-> <<Len(h) - n + k, h[Len(h) - n + k]>>]

\* C25: a request whose model call has been made had at most 20 history
\* entries, and the history sent to the model is its last min(10, n) entries,
\* in order and with their roles.
C25_HistoryBounded ==
    \A r \in Reqs :
        eff[r].modelCalls > 0 =>
            /\ Len(input[r].body.chat_history) <= 20
            /\ local[r].prompt.history = LastTen(input[r].body.chat_history)

\* C26: in the groq route the context given to buildSystemPrompt has at most 3
\* snippets, one per hit that carried a text, none longer than 1500
\* characters, and the CONTEXT section is written exactly when there is a
\* snippet.
C26_ContextBounded ==
    \A r \in Reqs :
        (route = "groq" /\ eff[r].modelCalls > 0) =>
            /\ Len(local[r].prompt.context) <= 3
            /\ Len(local[r].prompt.context) = local[r].rag
            /\ \A i \in DOMAIN local[r].prompt.context : local[r].prompt.context[i] \in 1 .. 1500
            /\ local[r].prompt.section <=> local[r].prompt.context # <<>>
            /\ local[r].search = "textless" => local[r].prompt.context = <<>>

C26_Witness ==
    \E r \in Reqs :
        /\ route = "groq"
        /\ Success(r)
        /\ eff[r].modelCalls = 1
        /\ local[r].prompt.context = <<1, 1500, 1500>>
        /\ local[r].prompt.section

\* C27: a user never has more than 2 rows in bots, whatever addBot calls run
\* and however they overlap.
C27_AtMostTwoBots == botTable.rows <= 2

\* C28: the 11th POST to generate-field for a bot within one minute is
\* rejected with 429 and the generation model is invoked for at most 10 of
\* the POSTs of the minute.
C28_EleventhRejected ==
    /\ fieldGen.generated <= FieldGenLimit
    /\ fieldGen.posts > FieldGenLimit =>
        \/ fieldGen.pc = "idle"
        \/ fieldGen.pc = "done" /\ fieldGen.status = 429

\* C30: once every edit of the configuration has been followed by a
\* successful ingestBotContent, the index holds for the bot exactly one
\* document per non-empty field, with the field's current trimmed text, and
\* retrieveContext is given no text of a field that has been cleared.
C30_IndexMatchesConfig ==
    (searchIndex.synced /\ searchIndex.ingest.pc = "idle") =>
        /\ \A f \in ConfigFields :
            LET v == searchIndex.config[f]
                t == IF v.present THEN Trim(v.value) ELSE <<>>
            IN  /\ searchIndex.docs[f].present <=> t # <<>>
                /\ searchIndex.docs[f].present => searchIndex.docs[f].value = t
        /\ searchIndex.hit.present =>
            /\ searchIndex.config[searchIndex.hit.field].present
            /\ searchIndex.hit.value = Trim(searchIndex.config[searchIndex.hit.field].value)

====
